---- MODULE Spec2Model ----
(***************************************************************************)
(* Model of the live-quote streaming module kitews.py and of the callers   *)
(* in kite1.py that drive it.                                              *)
(*                                                                         *)
(* The module-level globals of kitews.py are the state: kws, the permanent *)
(* token set always_subscribed_tokens, the quote cache live_quotes and the *)
(* stored credentials.  Every KiteTicker instance ever constructed is kept *)
(* in `ticker` (an instance that is no longer referenced by kws still has  *)
(* its connection thread).  The KiteTicker transport itself is outside the *)
(* repository: its events (handshake, connection loss, tick delivery) are  *)
(* environment actions that invoke the callbacks kitews.py registers.      *)
(*                                                                         *)
(* Modelling choices:                                                      *)
(*  - api_key_ws and access_token_ws are written by start_websocket and    *)
(*    read only by the constructor call that follows, so they are inputs   *)
(*    of the action and not state;                                         *)
(*  - a stored entry keeps instrument_token and last_price; ohlc, volume,  *)
(*    oi and depth are copied from the tick in the same assignment;        *)
(*  - transport calls (subscribe, unsubscribe, set_mode, stop) succeed;    *)
(*  - the transport's retry limit is its own: after a connection loss it   *)
(*    either schedules a retry (on_reconnect) or gives up (on_noreconnect);*)
(*  - `log` records the last handler run, the transport calls it issued    *)
(*    and what it saw, and `delivered` the last price on_ticks processed   *)
(*    per token since the cache was last emptied; neither is read by any   *)
(*    handler.                                                             *)
(*  - the callers in kite1.py keep state of their own: the dict a caller   *)
(*    got from get_all_live_quotes (`quotes`), the locals of the           *)
(*    plot_option_chain call in progress (`chain`) and the position and    *)
(*    locals of each request thread inside subscribe_to_tokens (`callers`) *)
(*    and inside start_websocket (`starting`);                             *)
(*    `credentials` is the access token a KiteTicker was constructed with  *)
(*    and `requested` an observer of subscribe_to_tokens calls made while  *)
(*    not connected;                                                       *)
(*  - prices and strikes of the option chain are whole numbers, with a     *)
(*    strike_step of 2 so that a price can lie halfway between two strikes;*)
(*  - each concern has its specification: Spec and SpecPending the         *)
(*    connection and subscription machine, SpecAuth the same with rejected *)
(*    credentials, SpecQuotes and SpecSnapshot the quote cache,            *)
(*    SpecReconcile two threads inside subscribe_to_tokens, SpecWindow the *)
(*    window selection as a function and SpecChain the option chain        *)
(*    callback from trigger to return; SpecFailing adds transport calls    *)
(*    that raise, SpecResolve is the price resolution under fairness,      *)
(*    SpecFrame the cache beside everything that is not the receive path,  *)
(*    SpecCalls the start, stop and reconcile calls run one after the      *)
(*    other and SpecStartStop a start_websocket call statement by          *)
(*    statement beside stop_websocket.                                     *)
(***************************************************************************)
EXTENDS Integers, Sequences, FiniteSets, TLC

\* ---------------------------------------------------------------- bounds
MaxToken == 2
MaxBatch == 2
MaxTickers == 2
MaxStrikes == 4
MaxOtm == 2

Tokens == 1..MaxToken

\* two last_price values tell an overwritten entry from the one it replaced
Prices == {1, 2}
TickerIds == 1..MaxTickers

\* kws = None, and the falsy instrument_token of a malformed tick
None == 0
NoToken == 0

\* credentials as start_websocket sees them: empty strings are falsy
ApiKeys == {"", "key"}
AccessTokens == {"", "token"}

\* what the ticker object offers under the attribute name `subscriptions`:
\* nothing that subscribe_to_tokens can read (no attribute, or a value of
\* another type), a dict keyed by token, or a list or set of tokens
SubscriptionsKinds == {"absent", "dict", "set"}

VARIABLES
    kws,                        \* current ticker id, or None
    always_subscribed_tokens,   \* the permanent set
    live_quotes,                \* dict token -> stored entry
    ticker,                     \* id -> [st, subs]
    batch,                      \* id -> ticks the on_ticks call in progress has still to process
    nextId,                     \* number of KiteTicker instances constructed
    threads,                    \* connection threads started and not yet run
    subscriptionsKind,          \* shape of kws.subscriptions in this build
    log,                        \* last handler run and the transport calls it made
    delivered,                  \* token -> last price on_ticks processed since the last clear
    quotes,                     \* the dict a caller of get_all_live_quotes holds
    requested,                  \* last token set asked for while not connected
    credentials,                \* id -> access token the instance was constructed with
    chain,                      \* the plot_option_chain call in progress, its locals
    callers,                    \* caller -> position and locals in subscribe_to_tokens
    starting                    \* the start_websocket call in progress, its position and argument

\* the globals of kitews.py, the transport and the two observers log, delivered
kitewsVars == <<kws, always_subscribed_tokens, live_quotes, ticker, batch, nextId, threads,
                subscriptionsKind, log, delivered>>

\* what the callers in kite1.py and the transport hold besides
callerVars == <<quotes, requested, credentials, chain, callers, starting>>

vars == <<kws, always_subscribed_tokens, live_quotes, ticker, batch, nextId, threads,
          subscriptionsKind, log, delivered, quotes, requested, credentials, chain, callers,
          starting>>

\* ------------------------------------------------------------- transport
NewTicker == [st |-> "unused", subs |-> {}]

is_connected(i) == ticker[i].st \in {"open", "connected"}

\* a connection test that only asks whether a ticker exists
KwsExists == kws # None

KwsConnected == kws # None /\ is_connected(kws)

\* ws.subscribe(tokens) on ticker record t
Subscribe(t, tokens) == [t EXCEPT !.subs = @ \cup tokens]

\* ws.unsubscribe(tokens) on ticker record t
Unsubscribe(t, tokens) == [t EXCEPT !.subs = @ \ tokens]

\* ws.stop(): the connection is closed and never reconnects
Stop(t) == [t EXCEPT !.st = "stopped", !.subs = {}]

NoCalls(op, tk, arg) ==
    [op |-> op, tk |-> tk, arg |-> arg, unsub |-> {}, sub |-> {}, mode |-> {},
     repeat |-> FALSE, connected |-> FALSE]

\* the log after a handler that makes no transport call and that no property names
Idle == NoCalls("other", None, {})

\* ------------------------------------------------------------ quote cache
Entry(tick) == [instrument_token |-> tick.instrument_token,
                last_price |-> tick.last_price]

Absent == [instrument_token |-> NoToken, last_price |-> 0]

get_live_quote(tok) ==
    IF tok \in DOMAIN live_quotes THEN live_quotes[tok] ELSE Absent

\* a store that keeps the entry a token already has
StoreTickFirstWins(q, tick) ==
    IF tick.instrument_token # NoToken /\ tick.instrument_token \notin DOMAIN q
    THEN [k \in DOMAIN q \cup {tick.instrument_token} |->
             IF k = tick.instrument_token THEN Entry(tick) ELSE q[k]]
    ELSE q

\* a store that drops the entries of the other tokens
StoreTickAlone(q, tick) ==
    IF tick.instrument_token # NoToken
    THEN [k \in {tick.instrument_token} |-> Entry(tick)]
    ELSE q

\* one iteration of the loop of on_ticks on dict q
StoreTick(q, tick) ==
    IF tick.instrument_token # NoToken
    THEN [k \in DOMAIN q \cup {tick.instrument_token} |->
             IF k = tick.instrument_token THEN Entry(tick) ELSE q[k]]
    ELSE q

EmptyDict == [k \in {} |-> Absent]

\* ------------------------------------------------------------ callers' state
\* no caller holds a dict returned by get_all_live_quotes
NoQuotes == [ref |-> "none", at_call |-> EmptyDict, kept |-> EmptyDict]

\* subscribe_to_tokens keeps nothing of a call made while not connected; this
\* is what an observer of the calls has seen
NoRequest == [made |-> FALSE, tokens |-> {}]

\* the callbacks of kite1.py that call subscribe_to_tokens: plot_option_chain
\* and fetch_live_quotes, each run by its own request thread
Callers == {"plot_option_chain", "fetch_live_quotes"}

\* a caller outside subscribe_to_tokens
NotCalling == [pc |-> "idle", tokens |-> {}, tokens_to_unsubscribe |-> {},
               tokens_to_add |-> {}]

\* current_ltp = None
NoLtp == -1

\* no plot_option_chain call has been made
\* no atm_strike has been computed
NoStrike == 0

\* no plot_option_chain call has been made
NoChain == [pc |-> "idle", strikes |-> <<>>, strike_step |-> 0, num_otm_strikes |-> 0,
            attempt |-> 0, current_ltp |-> NoLtp, atm_strike |-> NoStrike,
            display_strikes |-> <<>>, ret |-> "none"]

\* no start_websocket call is in progress
NotStarting == [pc |-> "idle", initial_tokens |-> {}]

Init ==
    /\ kws = None
    /\ always_subscribed_tokens = {}
    /\ live_quotes = EmptyDict
    /\ ticker = [i \in TickerIds |-> NewTicker]
    /\ batch = [i \in TickerIds |-> 0]
    /\ nextId = 0
    /\ threads = 0
    /\ subscriptionsKind \in SubscriptionsKinds
    /\ log = NoCalls("init", None, {})
    /\ delivered = [t \in Tokens |-> 0]
    /\ quotes = NoQuotes
    /\ requested = NoRequest
    /\ credentials = [i \in TickerIds |-> ""]
    /\ chain = NoChain
    /\ callers = [c \in Callers |-> NotCalling]
    /\ starting = NotStarting

\* ------------------------------------------------------------ start_websocket
\* the instance kws refers to after the `if kws and kws.is_connected()` chain:
\* a connected one is stopped, any other one is only dereferenced
\* a restart that leaves the connected instance running
StopExistingNever == ticker

StopExisting ==
    IF KwsConnected THEN [ticker EXCEPT ![kws] = Stop(@)] ELSE ticker

\* a start that replaces the permanent set
StoreInitialTokensOnly(initial_tokens) ==
    IF initial_tokens = {} THEN always_subscribed_tokens ELSE initial_tokens

\* initial_tokens joins the permanent set
StoreInitialTokens(initial_tokens) == always_subscribed_tokens \cup initial_tokens

\* a test that looks at the API key alone
not_provided_key_only(api_k, access_t) == api_k = ""

\* `if not api_k or not access_t`
not_provided(api_k, access_t) == api_k = "" \/ access_t = ""

start_websocket(api_k, access_t, initial_tokens) ==
    /\ IF not_provided(api_k, access_t)
       THEN /\ log' = NoCalls("start_websocket", None, {})
            /\ UNCHANGED <<kws, always_subscribed_tokens, ticker, nextId, threads>>
       ELSE /\ nextId < MaxTickers
            /\ ticker' = [StopExisting EXCEPT ![nextId + 1].st = "created"]
            /\ kws' = nextId + 1
            /\ nextId' = nextId + 1
            /\ always_subscribed_tokens' = StoreInitialTokens(initial_tokens)
            /\ threads' = threads + 1
            /\ log' = [NoCalls("start_websocket", nextId + 1, {})
                           EXCEPT !.connected = KwsConnected]
    /\ UNCHANGED <<live_quotes, batch, subscriptionsKind, delivered>>

\* the thread body: it connects whatever the global kws is when it runs
connect_websocket_thread_target ==
    /\ threads > 0
    /\ threads' = threads - 1
    /\ ticker' = IF kws # None /\ ticker[kws].st = "created"
                 THEN [ticker EXCEPT ![kws].st = "connecting"]
                 ELSE ticker
    /\ log' = Idle
    /\ UNCHANGED <<kws, always_subscribed_tokens, live_quotes, batch, nextId, subscriptionsKind, delivered>>

\* start_websocket with credentials, statement by statement.  First the
\* `if kws and kws.is_connected()` chain: a connected ticker is stopped, one
\* that is not connected is dropped with `kws = None`
start_websocket_enter(initial_tokens) ==
    /\ starting.pc \in {"idle", "returned"}
    /\ nextId < MaxTickers
    /\ starting' = [pc |-> "construct", initial_tokens |-> initial_tokens]
    /\ ticker' = StopExisting
    /\ kws' = IF KwsConnected THEN kws ELSE None
    /\ log' = Idle
    /\ UNCHANGED <<always_subscribed_tokens, live_quotes, batch, nextId, threads,
                   subscriptionsKind, delivered, quotes, requested, credentials, chain, callers>>

\* `kws = KiteTicker(api_key_ws, access_token_ws)` and the callbacks
start_websocket_construct ==
    /\ starting.pc = "construct"
    /\ starting' = [starting EXCEPT !.pc = "store"]
    /\ ticker' = [ticker EXCEPT ![nextId + 1].st = "created"]
    /\ kws' = nextId + 1
    /\ nextId' = nextId + 1
    /\ log' = Idle
    /\ UNCHANGED <<always_subscribed_tokens, live_quotes, batch, threads,
                   subscriptionsKind, delivered, quotes, requested, credentials, chain, callers>>

\* `always_subscribed_tokens.update(initial_tokens)`, the thread, return
start_websocket_store ==
    /\ starting.pc = "store"
    /\ starting' = [starting EXCEPT !.pc = "returned"]
    /\ always_subscribed_tokens' = StoreInitialTokens(starting.initial_tokens)
    /\ threads' = threads + 1
    /\ log' = Idle
    /\ UNCHANGED <<kws, live_quotes, ticker, batch, nextId,
                   subscriptionsKind, delivered, quotes, requested, credentials, chain, callers>>

\* ------------------------------------------------------------ stop_websocket
StopTickers ==
    IF KwsConnected THEN [ticker EXCEPT ![kws] = Stop(@)] ELSE ticker

\* the permanent set cleared in the connected branch only
StopPermanentConnectedOnly ==
    IF KwsConnected THEN {} ELSE always_subscribed_tokens

StopPermanent == IF kws # None THEN {} ELSE always_subscribed_tokens

stop_websocket ==
    /\ ticker' = StopTickers
    /\ always_subscribed_tokens' = StopPermanent
    /\ kws' = None
    /\ log' = NoCalls("stop_websocket", None, {})
    /\ UNCHANGED <<live_quotes, batch, nextId,
                   threads, subscriptionsKind, delivered>>

\* ------------------------------------------------------------ subscribe_to_tokens
current_subscriptions ==
    IF subscriptionsKind \in {"dict", "set"} /\ ticker[kws].subs # {}
    THEN ticker[kws].subs
    ELSE {}

all_tokens_to_subscribe(tokens) == always_subscribed_tokens \cup tokens

\* a delta that forgets the permanent set
tokens_to_unsubscribe_requested_only(tokens) == current_subscriptions \ tokens

tokens_to_unsubscribe(tokens) ==
    current_subscriptions \ all_tokens_to_subscribe(tokens)

tokens_to_add(tokens) ==
    all_tokens_to_subscribe(tokens) \ current_subscriptions

subscribe_to_tokens(tokens) ==
    /\ IF KwsConnected
       THEN /\ ticker' = [ticker EXCEPT ![kws] =
                             Subscribe(Unsubscribe(@, tokens_to_unsubscribe(tokens)),
                                       tokens_to_add(tokens))]
            /\ log' = [op |-> "subscribe_to_tokens", tk |-> None, arg |-> tokens,
                       unsub |-> tokens_to_unsubscribe(tokens),
                       sub |-> tokens_to_add(tokens),
                       mode |-> tokens_to_add(tokens),
                       repeat |-> /\ log.op = "subscribe_to_tokens"
                                  /\ log.connected
                                  /\ log.arg = tokens,
                       connected |-> TRUE]
       ELSE /\ ticker' = ticker
            /\ log' = NoCalls("subscribe_to_tokens", None, tokens)
    /\ UNCHANGED <<kws, always_subscribed_tokens, live_quotes, batch, nextId, threads, subscriptionsKind,
                   delivered>>

\* subscribe_to_tokens statement by statement, run by caller c.  First the
\* connection test, the read of kws.subscriptions and the two deltas, which
\* stay in the caller's locals
subscribe_to_tokens_read(c, tokens) ==
    /\ callers[c].pc \in {"idle", "returned", "raised"}
    /\ callers' = [callers EXCEPT ![c] =
                       IF KwsConnected
                       THEN [pc |-> "unsubscribe", tokens |-> tokens,
                             tokens_to_unsubscribe |-> tokens_to_unsubscribe(tokens),
                             tokens_to_add |-> tokens_to_add(tokens)]
                       ELSE [NotCalling EXCEPT !.pc = "returned", !.tokens = tokens]]
    /\ log' = Idle
    /\ UNCHANGED <<kws, always_subscribed_tokens, live_quotes, ticker, batch, nextId, threads,
                   subscriptionsKind, delivered, quotes, requested, credentials, chain, starting>>

\* `if tokens_to_unsubscribe: kws.unsubscribe(tokens_to_unsubscribe)`
subscribe_to_tokens_unsubscribe(c) ==
    /\ callers[c].pc = "unsubscribe"
    /\ callers' = [callers EXCEPT ![c].pc = "subscribe"]
    /\ ticker' = [ticker EXCEPT ![kws] = Unsubscribe(@, callers[c].tokens_to_unsubscribe)]
    /\ log' = Idle
    /\ UNCHANGED <<kws, always_subscribed_tokens, live_quotes, batch, nextId, threads,
                   subscriptionsKind, delivered, quotes, requested, credentials, chain, starting>>

\* `if tokens_to_add: kws.subscribe(tokens_to_add); kws.set_mode(...)`, return
subscribe_to_tokens_subscribe(c) ==
    /\ callers[c].pc = "subscribe"
    /\ callers' = [callers EXCEPT ![c].pc = "returned"]
    /\ ticker' = [ticker EXCEPT ![kws] = Subscribe(@, callers[c].tokens_to_add)]
    /\ log' = Idle
    /\ UNCHANGED <<kws, always_subscribed_tokens, live_quotes, batch, nextId, threads,
                   subscriptionsKind, delivered, quotes, requested, credentials, chain, starting>>

\* kws.unsubscribe raises: the except clause logs the error and the call
\* goes on to the subscribe; nothing was removed from the subscriptions
subscribe_to_tokens_unsubscribe_raises(c) ==
    /\ callers[c].pc = "unsubscribe"
    /\ callers[c].tokens_to_unsubscribe # {}
    /\ callers' = [callers EXCEPT ![c].pc = "subscribe"]
    /\ log' = Idle
    /\ UNCHANGED <<kws, always_subscribed_tokens, live_quotes, ticker, batch, nextId, threads,
                   subscriptionsKind, delivered, quotes, requested, credentials, chain, starting>>

\* kws.subscribe or kws.set_mode raises: neither call is inside a try, so
\* the exception leaves subscribe_to_tokens and reaches caller c
subscribe_to_tokens_subscribe_raises(c) ==
    /\ callers[c].pc = "subscribe"
    /\ callers[c].tokens_to_add # {}
    /\ callers' = [callers EXCEPT ![c].pc = "raised"]
    /\ log' = Idle
    /\ UNCHANGED <<kws, always_subscribed_tokens, live_quotes, ticker, batch, nextId, threads,
                   subscriptionsKind, delivered, quotes, requested, credentials, chain, starting>>

\* ------------------------------------------------------------ transport events
\* the handshake succeeds; is_connected() is true from here on
Handshake(i) ==
    /\ ticker[i].st \in {"connecting", "retrying"}
    /\ ticker' = [ticker EXCEPT ![i].st = "open"]
    /\ log' = [NoCalls("handshake", i, {}) EXCEPT !.repeat = ticker[i].st = "retrying"]
    /\ UNCHANGED <<kws, always_subscribed_tokens, live_quotes, batch, nextId, threads, subscriptionsKind,
                   delivered>>

\* on_connect(i) runs right after a handshake that followed a retry
Reconnected(i) == log.op = "handshake" /\ log.tk = i /\ log.repeat

\* on_connect that subscribes only on the first connect of an instance
OnConnectTokensFirstOnly(i) ==
    IF Reconnected(i) THEN {} ELSE always_subscribed_tokens

\* the tokens on_connect subscribes and sets to full mode
OnConnectTokens(i) == always_subscribed_tokens

on_connect(i) ==
    /\ ticker[i].st = "open"
    /\ ticker' = [ticker EXCEPT ![i] = [Subscribe(@, OnConnectTokens(i)) EXCEPT !.st = "connected"]]
    /\ log' = [NoCalls("on_connect", i, {}) EXCEPT !.sub = OnConnectTokens(i),
                                                   !.mode = OnConnectTokens(i),
                                                   !.repeat = Reconnected(i)]
    /\ UNCHANGED <<kws, always_subscribed_tokens, live_quotes, batch, nextId, threads, subscriptionsKind,
                   delivered>>

\* the connection drops or an attempt fails (on_error, on_close only log);
\* the transport schedules a retry and reports it through on_reconnect
on_reconnect(i) ==
    /\ ticker[i].st \in {"connecting", "open", "connected", "retrying"}
    /\ ticker' = [ticker EXCEPT ![i].st = "retrying", ![i].subs = {}]
    /\ log' = Idle
    /\ UNCHANGED <<kws, always_subscribed_tokens, live_quotes, batch, nextId, threads, subscriptionsKind,
                   delivered>>

\* the connection drops and the transport has no retries left
on_noreconnect(i) ==
    /\ ticker[i].st \in {"connecting", "open", "connected", "retrying"}
    /\ ticker' = [ticker EXCEPT ![i].st = "lost", ![i].subs = {}]
    /\ log' = Idle
    /\ UNCHANGED <<kws, always_subscribed_tokens, live_quotes, batch, nextId, threads, subscriptionsKind,
                   delivered>>

\* ------------------------------------------------------------ on_ticks
\* the ticks a batch can hold; a tick without instrument_token carries NoToken
Ticks == [instrument_token : Tokens \cup {NoToken}, last_price : Prices]

\* the transport calls on_ticks with a batch of n ticks
DeliverTicks(i, n) ==
    /\ is_connected(i)
    /\ batch[i] = 0
    /\ batch' = [batch EXCEPT ![i] = n]
    /\ log' = Idle
    /\ UNCHANGED <<kws, always_subscribed_tokens, live_quotes, ticker, nextId, threads, subscriptionsKind,
                   delivered>>

\* one iteration of `for tick in ticks`, tick being the next one of the batch
on_ticks(i, tick) ==
    /\ batch[i] > 0
    /\ live_quotes' = StoreTick(live_quotes, tick)
    /\ batch' = [batch EXCEPT ![i] = @ - 1]
    /\ delivered' = IF tick.instrument_token # NoToken
                    THEN [delivered EXCEPT ![tick.instrument_token] = tick.last_price]
                    ELSE delivered
    /\ log' = [NoCalls("on_ticks", None, {})
                   EXCEPT !.repeat = /\ tick.instrument_token \in DOMAIN live_quotes
                                     /\ live_quotes[tick.instrument_token].last_price
                                            # tick.last_price]
    /\ UNCHANGED <<kws, always_subscribed_tokens, ticker, nextId, threads, subscriptionsKind>>

\* ------------------------------------------------------------ clear_live_quotes
\* an assignment that misses the module global
ClearedQuotesLocalOnly == live_quotes

ClearedQuotes == EmptyDict

clear_live_quotes ==
    /\ live_quotes' = ClearedQuotes
    /\ delivered' = [t \in Tokens |-> 0]
    /\ log' = [NoCalls("clear_live_quotes", None, {})
                   EXCEPT !.repeat = DOMAIN live_quotes # {}]
    /\ UNCHANGED <<kws, always_subscribed_tokens, ticker, batch, nextId, threads, subscriptionsKind>>

\* ------------------------------------------------------------ get_all_live_quotes
\* `return live_quotes`: the caller gets the dict object the global names, and
\* at_call remembers what it held when the call returned
ReturnedQuotes == [ref |-> "live_quotes", at_call |-> live_quotes, kept |-> EmptyDict]

\* what the caller reads from the dict it holds
QuotesHeld == IF quotes.ref = "live_quotes" THEN live_quotes ELSE quotes.kept

\* `live_quotes = {}` names a new object: a caller holding the old one keeps it
Rebound ==
    IF quotes.ref = "live_quotes"
    THEN [quotes EXCEPT !.ref = "old", !.kept = live_quotes]
    ELSE quotes

get_all_live_quotes ==
    /\ quotes' = ReturnedQuotes
    /\ log' = Idle
    /\ UNCHANGED <<kws, always_subscribed_tokens, live_quotes, ticker, batch, nextId, threads,
                   subscriptionsKind, delivered>>

\* ------------------------------------------------------------ callers in kite1.py
\* the tokens of INDEX_INSTRUMENT_DETAILS, passed as initial_tokens by every
\* start_websocket call of kite1.py
all_index_tokens_for_ws == {1}

\* the clear-token branch: stop_websocket() then clear_live_quotes()
handle_kite_init_and_clear ==
    /\ ticker' = StopTickers
    /\ always_subscribed_tokens' = StopPermanent
    /\ kws' = None
    /\ live_quotes' = ClearedQuotes
    /\ delivered' = [t \in Tokens |-> 0]
    /\ log' = [NoCalls("handle_kite_init_and_clear", kws, {})
                   EXCEPT !.connected = KwsConnected,
                          !.repeat = DOMAIN live_quotes # {}]
    /\ UNCHANGED <<batch, nextId, threads,
                   subscriptionsKind>>

\* ------------------------------------------------------------ plot_option_chain
\* the index selected in the option chain tab and its strike_step, in
\* units in which a price can lie exactly halfway between two strikes
underlying_token == 1
StrikeStep == 2

\* the strikes an expiry can list, and the prices around them
StrikeValues == {StrikeStep * k : k \in 1..MaxStrikes}
Ltps == 0..(StrikeStep * (MaxStrikes + 1))

\* num_otm_strikes as the input field passes it; -1 is any invalid value
OtmInputs == -1..MaxOtm
DefaultOtm == 5
max_retries == 3

\* instrument tokens of the CE and the PE option of a strike
call_token(strike) == MaxToken + 2 * strike - 1
put_token(strike) == MaxToken + 2 * strike

Range(seq) == {seq[i] : i \in DOMAIN seq}

RECURSIVE sorted(_)
sorted(S) ==
    IF S = {} THEN <<>>
    ELSE LET m == CHOOSE x \in S : \A y \in S : x <= y
         IN <<m>> \o sorted(S \ {m})

abs(x) == IF x < 0 THEN -x ELSE x
max(a, b) == IF a >= b THEN a ELSE b
min(a, b) == IF a <= b THEN a ELSE b

\* rounding that always goes down
round_down(a, b) == a \div b

\* Python's round(a / b) for b > 0: the nearest integer, a tie to the even one
round(a, b) ==
    LET q == a \div b
        r == a % b
    IN IF 2 * r < b THEN q
       ELSE IF 2 * r > b THEN q + 1
       ELSE IF q % 2 = 0 THEN q ELSE q + 1

\* strikes.index(x), counted from 0
index(strikes, x) == (CHOOSE i \in DOMAIN strikes : strikes[i] = x) - 1

\* a minimum that keeps the last of the closest strikes
nearest_last(strikes, ltp) ==
    LET i == CHOOSE i \in DOMAIN strikes :
                 /\ \A j \in DOMAIN strikes : abs(strikes[i] - ltp) <= abs(strikes[j] - ltp)
                 /\ \A j \in (i + 1)..Len(strikes) : abs(strikes[j] - ltp) > abs(strikes[i] - ltp)
    IN strikes[i]

\* min(strikes, key=lambda x: abs(x - current_ltp)): the first of the closest
nearest(strikes, ltp) ==
    LET i == CHOOSE i \in DOMAIN strikes :
                 /\ \A j \in DOMAIN strikes : abs(strikes[i] - ltp) <= abs(strikes[j] - ltp)
                 /\ \A j \in 1..(i - 1) : abs(strikes[j] - ltp) > abs(strikes[i] - ltp)
    IN strikes[i]

atm_strike(strikes, ltp, step) ==
    LET rounded == round(ltp, step) * step
    IN IF rounded \in Range(strikes) THEN rounded ELSE nearest(strikes, ltp)

\* seq[a:b] for 0 <= a and b <= len(seq)
slice(seq, a, b) == SubSeq(seq, a + 1, b)

display_window_size(n) == 2 * n + 1

\* a window that is left as the index arithmetic produced it
keep_window(w, strikes, n) == w

\* `if len(display_strikes) < display_window_size and len(strikes) >= ...`
fill_window(w, strikes, n) ==
    IF Len(w) < display_window_size(n) /\ Len(strikes) >= display_window_size(n)
    THEN slice(strikes, 0, display_window_size(n))
    ELSE w

\* the branch `if current_ltp is not None`, for a non-empty strikes list
window(strikes, atm, n) ==
    LET atm_idx_in_all_strikes == index(strikes, atm)
        start_idx == max(0, atm_idx_in_all_strikes - n)
        end_idx == min(Len(strikes), atm_idx_in_all_strikes + n + 1)
        start_adj == IF end_idx - start_idx < display_window_size(n)
                     THEN max(0, end_idx - display_window_size(n))
                     ELSE start_idx
    IN fill_window(slice(strikes, start_adj, end_idx), strikes, n)

\* display_strikes after the fallback `if not display_strikes and strikes`
display_strikes(strikes, ltp, atm, n) ==
    LET w == IF ltp # NoLtp THEN window(strikes, atm, n) ELSE <<>>
    IN IF w = <<>> /\ strikes # <<>>
       THEN slice(strikes, 0, min(Len(strikes), display_window_size(n)))
       ELSE w

\* a request that leaves the options of the window out
index_tokens_only(ds) == all_index_tokens_for_ws

\* list(set(instruments_to_subscribe)): every index token and the CE and PE
\* token of every displayed strike
instruments_to_subscribe(ds) ==
    all_index_tokens_for_ws \cup {call_token(k) : k \in Range(ds)}
                            \cup {put_token(k) : k \in Range(ds)}

\* the callback is triggered: arguments are normalised, locals initialised
plot_option_chain(S, n) ==
    /\ chain.pc \in {"idle", "done"}
    /\ chain' = [NoChain EXCEPT !.pc = "poll",
                                !.strikes = sorted(S),
                                !.strike_step = StrikeStep,
                                !.num_otm_strikes = IF n < 0 THEN DefaultOtm ELSE n]
    /\ log' = Idle
    /\ UNCHANGED <<kws, always_subscribed_tokens, live_quotes, ticker, batch, nextId, threads,
                   subscriptionsKind, delivered, quotes, requested, credentials, callers, starting>>

\* a loop that goes on polling after a price was found
after_found_no_break(attempt) == IF attempt + 1 < max_retries THEN "poll" ELSE "select"

\* `break`: the loop is left at the attempt that found a price
after_found(attempt) == "select"

\* one iteration of `for attempt in range(max_retries)`: a cache read, and a
\* sleep when it found nothing
poll_live_quote ==
    /\ chain.pc = "poll"
    /\ chain' = IF get_live_quote(underlying_token) # Absent
                THEN [chain EXCEPT !.current_ltp = get_live_quote(underlying_token).last_price,
                                   !.attempt = @ + 1,
                                   !.pc = after_found(chain.attempt)]
                ELSE [chain EXCEPT !.attempt = @ + 1,
                                   !.pc = IF chain.attempt + 1 < max_retries
                                          THEN "poll" ELSE "rest"]
    /\ log' = Idle
    /\ UNCHANGED <<kws, always_subscribed_tokens, live_quotes, ticker, batch, nextId, threads,
                   subscriptionsKind, delivered, quotes, requested, credentials, callers, starting>>

\* the REST fallback kite.ltp: it raises or answers without the key (NoLtp),
\* or answers with a last_price, which is taken as it comes
rest_ltp(p) ==
    /\ chain.pc = "rest"
    /\ chain' = [chain EXCEPT !.current_ltp = p, !.pc = "select"]
    /\ log' = Idle
    /\ UNCHANGED <<kws, always_subscribed_tokens, live_quotes, ticker, batch, nextId, threads,
                   subscriptionsKind, delivered, quotes, requested, credentials, callers, starting>>

\* the return for an expiry without options
no_options == [ret |-> "No options found", atm_strike |-> NoStrike,
               display_strikes |-> <<>>, subscribes |-> FALSE]

\* from `strikes = sorted(...)` on: the ATM strike, the window, the message
\* returned and whether the subscribe_to_tokens call is reached
window_outcome(c) ==
    LET atm == IF c.current_ltp # NoLtp
               THEN atm_strike(c.strikes, c.current_ltp, c.strike_step)
               ELSE NoStrike
        ds == display_strikes(c.strikes, c.current_ltp, atm, c.num_otm_strikes)
    IN IF ds = <<>>
       THEN [ret |-> "No strikes to display", atm_strike |-> atm,
             display_strikes |-> <<>>, subscribes |-> FALSE]
       ELSE [ret |-> "Option chain generated", atm_strike |-> atm,
             display_strikes |-> ds, subscribes |-> TRUE]

\* the emptiness test made only after the subscription
outcome_subscribing_first(c) ==
    IF c.strikes = <<>> THEN [no_options EXCEPT !.subscribes = TRUE] ELSE window_outcome(c)

\* `if options_for_expiry.empty: return ...`, else the windowing logic
outcome(c) == IF c.strikes = <<>> THEN no_options ELSE window_outcome(c)

\* from the options filter to the subscribe_to_tokens call
select_strikes ==
    /\ chain.pc = "select"
    /\ chain' = [chain EXCEPT !.pc = "done",
                              !.atm_strike = outcome(chain).atm_strike,
                              !.display_strikes = outcome(chain).display_strikes,
                              !.ret = outcome(chain).ret]
    /\ IF outcome(chain).subscribes
       THEN subscribe_to_tokens(instruments_to_subscribe(outcome(chain).display_strikes))
       ELSE /\ log' = NoCalls("plot_option_chain", None, {})
            /\ UNCHANGED <<kws, always_subscribed_tokens, live_quotes, ticker, batch, nextId,
                           threads, subscriptionsKind, delivered>>
    /\ UNCHANGED <<quotes, requested, credentials, callers, starting>>

\* ------------------------------------------------------------ specifications
\* the connection and subscription machine: the callers of start_websocket,
\* stop_websocket and subscribe_to_tokens, the connection thread and the
\* transport's connection events
Next ==
    \/ \E k \in ApiKeys, a \in AccessTokens, T \in SUBSET Tokens :
           start_websocket(k, a, T) /\ UNCHANGED callerVars
    \/ connect_websocket_thread_target /\ UNCHANGED callerVars
    \/ stop_websocket /\ UNCHANGED callerVars
    \/ \E T \in SUBSET Tokens : subscribe_to_tokens(T) /\ UNCHANGED callerVars
    \/ \E i \in TickerIds : Handshake(i) /\ UNCHANGED callerVars
    \/ \E i \in TickerIds : on_connect(i) /\ UNCHANGED callerVars
    \/ \E i \in TickerIds : on_reconnect(i) /\ UNCHANGED callerVars
    \/ \E i \in TickerIds : on_noreconnect(i) /\ UNCHANGED callerVars

Spec == Init /\ [][Next]_vars

\* the connection and subscription machine watched by an observer who notes
\* the token set of every subscribe_to_tokens call made while not connected;
\* a call made while connected is applied at once and supersedes the note
Requested(tokens) ==
    IF KwsConnected THEN NoRequest ELSE [made |-> TRUE, tokens |-> tokens]

pendingVars == <<quotes, credentials, chain, callers, starting>>

NextPending ==
    \/ \E T \in SUBSET Tokens : start_websocket("key", "token", T) /\ UNCHANGED callerVars
    \/ connect_websocket_thread_target /\ UNCHANGED callerVars
    \/ \E T \in SUBSET Tokens :
           subscribe_to_tokens(T) /\ requested' = Requested(T) /\ UNCHANGED pendingVars
    \/ \E i \in TickerIds : Handshake(i) /\ UNCHANGED callerVars
    \/ \E i \in TickerIds : on_connect(i) /\ UNCHANGED callerVars
    \/ \E i \in TickerIds : on_reconnect(i) /\ UNCHANGED callerVars

SpecPending == Init /\ [][NextPending]_vars

\* the connection machine with the access token each instance was built
\* with: the server completes the handshake only for a token it accepts, and
\* answers any other with an error, which the transport reports through
\* on_error and treats like every failed attempt
AccessTokenValues == {"token", "expired"}

\* kws = KiteTicker(api_key_ws, access_token_ws)
Constructed(access_t) == [credentials EXCEPT ![nextId + 1] = access_t]

Accepted(i) == credentials[i] = "token"

authVars == <<quotes, requested, chain, callers, starting>>

NextAuth ==
    \/ \E a \in AccessTokenValues, T \in SUBSET Tokens :
           start_websocket("key", a, T) /\ credentials' = Constructed(a) /\ UNCHANGED authVars
    \/ connect_websocket_thread_target /\ UNCHANGED callerVars
    \/ \E i \in TickerIds : Accepted(i) /\ Handshake(i) /\ UNCHANGED callerVars
    \/ \E i \in TickerIds : on_connect(i) /\ UNCHANGED callerVars
    \/ \E i \in TickerIds : on_reconnect(i) /\ UNCHANGED callerVars
    \/ \E i \in TickerIds : on_noreconnect(i) /\ UNCHANGED callerVars

SpecAuth == Init /\ [][NextAuth]_vars

\* two request threads in subscribe_to_tokens at the same time, on a ticker
\* that start_websocket(key, token, P), the connection thread, the handshake
\* and on_connect have left connected and subscribed to the permanent set P,
\* and whose subscriptions attribute subscribe_to_tokens can read
InitReconcile ==
    /\ kws = 1
    /\ \E P \in SUBSET Tokens :
           /\ always_subscribed_tokens = P
           /\ ticker = [i \in TickerIds |->
                           IF i = 1 THEN [st |-> "connected", subs |-> P] ELSE NewTicker]
           /\ log = [NoCalls("on_connect", 1, {}) EXCEPT !.sub = P, !.mode = P]
    /\ nextId = 1
    /\ live_quotes = EmptyDict
    /\ batch = [i \in TickerIds |-> 0]
    /\ threads = 0
    /\ subscriptionsKind \in {"dict", "set"}
    /\ delivered = [t \in Tokens |-> 0]
    /\ quotes = NoQuotes
    /\ requested = NoRequest
    /\ credentials = [i \in TickerIds |-> ""]
    /\ chain = NoChain
    /\ callers = [c \in Callers |-> NotCalling]
    /\ starting = NotStarting

NextReconcile ==
    \/ \E c \in Callers, T \in SUBSET Tokens : subscribe_to_tokens_read(c, T)
    \/ \E c \in Callers : subscribe_to_tokens_unsubscribe(c)
    \/ \E c \in Callers : subscribe_to_tokens_subscribe(c)

SpecReconcile == InitReconcile /\ [][NextReconcile]_vars

\* the same calls over a transport whose unsubscribe, subscribe and set_mode
\* may fail
NextFailing ==
    \/ NextReconcile
    \/ \E c \in Callers : subscribe_to_tokens_unsubscribe_raises(c)
    \/ \E c \in Callers : subscribe_to_tokens_subscribe_raises(c)

SpecFailing == InitReconcile /\ [][NextFailing]_vars

\* the quote cache machine: a feed that is started, connects, delivers ticks
\* and is stopped, with the cache cleared by the callers in kite1.py
NextQuotes ==
    \/ start_websocket("key", "token", all_index_tokens_for_ws) /\ UNCHANGED callerVars
    \/ connect_websocket_thread_target /\ UNCHANGED callerVars
    \/ \E i \in TickerIds : Handshake(i) /\ UNCHANGED callerVars
    \/ \E i \in TickerIds : on_connect(i) /\ UNCHANGED callerVars
    \/ \E i \in TickerIds, n \in 1..MaxBatch : DeliverTicks(i, n) /\ UNCHANGED callerVars
    \/ \E i \in TickerIds, tick \in Ticks : on_ticks(i, tick) /\ UNCHANGED callerVars
    \/ clear_live_quotes /\ UNCHANGED callerVars
    \/ handle_kite_init_and_clear /\ UNCHANGED callerVars

\* no action of NextQuotes reads kws.subscriptions
InitQuotes == Init /\ subscriptionsKind = "absent"

SpecQuotes == InitQuotes /\ [][NextQuotes]_vars

\* the quote cache machine with a caller that holds on to the dict it got
\* from get_all_live_quotes (the local `quotes` of plot_option_chain and of
\* fetch_live_quotes) while the feed thread and the clearing callbacks run
heldVars == <<requested, credentials, chain, callers, starting>>

NextSnapshot ==
    \/ start_websocket("key", "token", all_index_tokens_for_ws) /\ UNCHANGED callerVars
    \/ connect_websocket_thread_target /\ UNCHANGED callerVars
    \/ \E i \in TickerIds : Handshake(i) /\ UNCHANGED callerVars
    \/ \E i \in TickerIds : on_connect(i) /\ UNCHANGED callerVars
    \/ \E i \in TickerIds, n \in 1..MaxBatch : DeliverTicks(i, n) /\ UNCHANGED callerVars
    \/ \E i \in TickerIds, tick \in Ticks : on_ticks(i, tick) /\ UNCHANGED callerVars
    \/ get_all_live_quotes /\ UNCHANGED heldVars
    \/ clear_live_quotes /\ quotes' = Rebound /\ UNCHANGED heldVars

SpecSnapshot == InitQuotes /\ [][NextSnapshot]_vars

\* window selection as a function of the strikes of the expiry, the window
\* size and the price: plot_option_chain at the options filter, current_ltp
\* resolved, for every strike list drawn from StrikeValues
WindowInputs ==
    {[NoChain EXCEPT !.pc = "select",
                     !.strikes = sorted(S),
                     !.strike_step = StrikeStep,
                     !.num_otm_strikes = IF n < 0 THEN DefaultOtm ELSE n,
                     !.current_ltp = p] : S \in SUBSET StrikeValues, n \in OtmInputs, p \in Ltps}

\* the default window of 5 + 1 + 5 over an expiry with 20 strikes
TwentyStrikes ==
    {[NoChain EXCEPT !.pc = "select",
                     !.strikes = [i \in 1..20 |-> StrikeStep * i],
                     !.strike_step = StrikeStep,
                     !.num_otm_strikes = DefaultOtm,
                     !.current_ltp = p] : p \in 0..(StrikeStep * 21)}

\* NIFTY (strike_step 50) at 24853 with the strikes 24650 .. 25050
NiftyExample ==
    [NoChain EXCEPT !.pc = "select",
                    !.strikes = [i \in 1..9 |-> 24600 + 50 * i],
                    !.strike_step = 50,
                    !.num_otm_strikes = 2,
                    !.current_ltp = 24853]

InitWindow ==
    /\ kws = None
    /\ always_subscribed_tokens = {}
    /\ live_quotes = EmptyDict
    /\ ticker = [i \in TickerIds |-> NewTicker]
    /\ batch = [i \in TickerIds |-> 0]
    /\ nextId = 0
    /\ threads = 0
    /\ subscriptionsKind = "absent"
    /\ log = NoCalls("init", None, {})
    /\ delivered = [t \in Tokens |-> 0]
    /\ quotes = NoQuotes
    /\ requested = NoRequest
    /\ credentials = [i \in TickerIds |-> ""]
    /\ chain \in WindowInputs \cup TwentyStrikes \cup {NiftyExample}
    /\ callers = [c \in Callers |-> NotCalling]
    /\ starting = NotStarting

NextWindow == select_strikes

SpecWindow == InitWindow /\ [][NextWindow]_vars

\* the option chain callback from its trigger to its return, while the feed
\* thread delivers ticks.  The callback finds the feed either never started or
\* as kite1.py starts it: start_websocket(key, token, all_index_tokens_for_ws),
\* the connection thread, the handshake and on_connect have run
FeedNotStarted ==
    /\ kws = None
    /\ always_subscribed_tokens = {}
    /\ ticker = [i \in TickerIds |-> NewTicker]
    /\ nextId = 0
    /\ log = NoCalls("init", None, {})

FeedConnected ==
    /\ kws = 1
    /\ always_subscribed_tokens = all_index_tokens_for_ws
    /\ ticker = [i \in TickerIds |->
                    IF i = 1
                    THEN [st |-> "connected", subs |-> all_index_tokens_for_ws]
                    ELSE NewTicker]
    /\ nextId = 1
    /\ log = [NoCalls("on_connect", 1, {}) EXCEPT !.sub = all_index_tokens_for_ws,
                                                  !.mode = all_index_tokens_for_ws]

InitChain ==
    /\ FeedNotStarted \/ FeedConnected
    /\ live_quotes = EmptyDict
    /\ batch = [i \in TickerIds |-> 0]
    /\ threads = 0
    /\ subscriptionsKind \in SubscriptionsKinds
    /\ delivered = [t \in Tokens |-> 0]
    /\ quotes = NoQuotes
    /\ requested = NoRequest
    /\ credentials = [i \in TickerIds |-> ""]
    /\ chain = NoChain
    /\ callers = [c \in Callers |-> NotCalling]
    /\ starting = NotStarting

\* what kite.ltp can leave in current_ltp: nothing, zero, a price
RestOutcomes == {NoLtp, 0, StrikeStep}

\* the ticks of the selected index
UnderlyingTicks == {tick \in Ticks : tick.instrument_token = underlying_token}

\* an expiry without options and one with every strike
ExpiryStrikes == {{}, StrikeValues}

NextChain ==
    \/ \E i \in TickerIds : DeliverTicks(i, 1) /\ UNCHANGED callerVars
    \/ \E i \in TickerIds, tick \in UnderlyingTicks : on_ticks(i, tick) /\ UNCHANGED callerVars
    \/ \E S \in ExpiryStrikes, n \in OtmInputs : plot_option_chain(S, n)
    \/ poll_live_quote
    \/ \E p \in RestOutcomes : rest_ltp(p)
    \/ select_strikes

SpecChain == InitChain /\ [][NextChain]_vars

\* the cache under everything that runs beside the receive path: the feed
\* starts connected as kite1.py starts it, ticks arrive, callers reconcile,
\* the connection drops, retries, recovers or is lost for good, the cache is
\* cleared and the feed is started again
InitFrame == InitChain /\ kws = 1 /\ subscriptionsKind = "dict"

\* a request for one more token, and the request that drops it again
FrameRequests == {{}, {MaxToken}}

\* ticks of the index, of that token, and ticks without a token
FrameTicks ==
    {tick \in Ticks : tick.instrument_token \in {NoToken, underlying_token, MaxToken}}

NextFrame ==
    \/ \E i \in TickerIds : DeliverTicks(i, 1) /\ UNCHANGED callerVars
    \/ \E i \in TickerIds, tick \in FrameTicks : on_ticks(i, tick) /\ UNCHANGED callerVars
    \/ \E T \in FrameRequests : subscribe_to_tokens(T) /\ UNCHANGED callerVars
    \/ \E i \in TickerIds : on_reconnect(i) /\ UNCHANGED callerVars
    \/ \E i \in TickerIds : on_noreconnect(i) /\ UNCHANGED callerVars
    \/ \E i \in TickerIds : Handshake(i) /\ UNCHANGED callerVars
    \/ \E i \in TickerIds : on_connect(i) /\ UNCHANGED callerVars
    \/ clear_live_quotes /\ UNCHANGED callerVars
    \/ start_websocket("key", "token", all_index_tokens_for_ws) /\ UNCHANGED callerVars
    \/ connect_websocket_thread_target /\ UNCHANGED callerVars

SpecFrame == InitFrame /\ [][NextFrame]_vars

\* the calls of kite1.py into kitews.py alone: start, stop and reconcile, with
\* a transport that connects and never drops
NextCalls ==
    \/ \E k \in ApiKeys, a \in AccessTokens, T \in SUBSET Tokens :
           start_websocket(k, a, T) /\ UNCHANGED callerVars
    \/ connect_websocket_thread_target /\ UNCHANGED callerVars
    \/ stop_websocket /\ UNCHANGED callerVars
    \/ \E T \in SUBSET Tokens : subscribe_to_tokens(T) /\ UNCHANGED callerVars
    \/ \E i \in TickerIds : Handshake(i) /\ UNCHANGED callerVars
    \/ \E i \in TickerIds : on_connect(i) /\ UNCHANGED callerVars

\* kws.subscriptions is not an attribute of the ticker, or it is a dict
InitCalls == Init /\ subscriptionsKind \in {"absent", "dict"}

SpecCalls == InitCalls /\ [][NextCalls]_vars

\* a start_websocket call in one request thread while another thread calls
\* stop_websocket
NextStartStop ==
    \/ \E T \in SUBSET Tokens : start_websocket_enter(T)
    \/ start_websocket_construct
    \/ start_websocket_store
    \/ stop_websocket /\ UNCHANGED callerVars
    \/ connect_websocket_thread_target /\ UNCHANGED callerVars
    \/ \E i \in TickerIds : Handshake(i) /\ UNCHANGED callerVars
    \/ \E i \in TickerIds : on_connect(i) /\ UNCHANGED callerVars

SpecStartStop == InitQuotes /\ [][NextStartStop]_vars

\* plot_option_chain runs in a request thread that is scheduled until it
\* returns: each of its steps is taken once it is due
NextResolve ==
    \/ \E i \in TickerIds : DeliverTicks(i, 1) /\ UNCHANGED callerVars
    \/ \E i \in TickerIds, tick \in UnderlyingTicks : on_ticks(i, tick) /\ UNCHANGED callerVars
    \/ plot_option_chain(StrikeValues, -1)
    \/ poll_live_quote
    \/ \E p \in RestOutcomes : rest_ltp(p)
    \/ select_strikes

SpecResolve ==
    /\ InitChain
    /\ [][NextResolve]_vars
    /\ WF_vars(poll_live_quote)
    /\ WF_vars(\E p \in RestOutcomes : rest_ltp(p))
    /\ WF_vars(select_strikes)

\* ------------------------------------------------------------ properties
SubscribedWhileConnected == log.op = "subscribe_to_tokens" /\ log.connected

\* C1: after subscribe_to_tokens(R) on a connected ticker the transport's
\* subscribed set equals always_subscribed_tokens \cup R and so contains every
\* permanent token
C1_ActiveEqualsTarget ==
    SubscribedWhileConnected =>
        /\ ticker[kws].subs = always_subscribed_tokens \cup log.arg
        /\ always_subscribed_tokens \subseteq ticker[kws].subs

\* C2 as stated: whenever kws is connected, the handshake-to-on_connect gap
\* included, every permanent token is subscribed
C2_PermanentWheneverOpen ==
    KwsConnected => always_subscribed_tokens \subseteq ticker[kws].subs

\* C2 amended: whenever kws is connected and its on_connect callback has
\* run, every permanent token is subscribed
C2_PermanentAfterOnConnect ==
    (kws # None /\ ticker[kws].st = "connected") =>
        always_subscribed_tokens \subseteq ticker[kws].subs

C2_Witness ==
    /\ kws # None
    /\ ticker[kws].st = "connected"
    /\ always_subscribed_tokens # {}
    /\ SubscribedWhileConnected
    /\ log.unsub # {}

\* C3: the second of two consecutive subscribe_to_tokens(R) calls with the
\* same R on a connected ticker makes no subscribe, unsubscribe or set_mode call
C3_SecondCallSilent ==
    (SubscribedWhileConnected /\ log.repeat) =>
        (log.unsub = {} /\ log.sub = {} /\ log.mode = {})

\* C4: every subscribe_to_tokens(R) on a connected ticker unsubscribes exactly
\* active \ (permanent \cup R) and subscribes exactly (permanent \cup R) \ active,
\* so no unsubscribe call contains a permanent token
C4_ExactDelta ==
    [][(log'.op = "subscribe_to_tokens" /\ log'.connected) =>
          /\ log'.unsub = ticker[kws].subs \ (always_subscribed_tokens \cup log'.arg)
          /\ log'.sub = (always_subscribed_tokens \cup log'.arg) \ ticker[kws].subs
          /\ log'.unsub \cap always_subscribed_tokens = {}]_vars

\* C5: every on_connect, on the first connect and on every reconnect,
\* subscribes exactly the current permanent set and requests full mode for it,
\* so that every permanent token is subscribed again
C5_OnConnectResubscribes ==
    log.op = "on_connect" =>
        /\ log.sub = always_subscribed_tokens
        /\ log.mode = always_subscribed_tokens
        /\ log.unsub = {}
        /\ ticker[log.tk].st = "connected"
        /\ always_subscribed_tokens \subseteq ticker[log.tk].subs

C5_Witness ==
    /\ log.op = "on_connect"
    /\ log.repeat
    /\ always_subscribed_tokens # {}

StartedStep == log'.op = "start_websocket" /\ log'.tk # None

\* C6 as stated: start_websocket with valid credentials while the ticker is
\* Connected or Connecting changes nothing: no stop, no new instance, no new thread
C6_StartIsNoOp ==
    [][(StartedStep /\ kws # None
            /\ ticker[kws].st \in {"connecting", "open", "connected"}) =>
          (kws' = kws /\ ticker' = ticker /\ nextId' = nextId /\ threads' = threads)]_vars

\* C6 amended: start_websocket with valid credentials while a ticker exists
\* always creates a new instance and starts a new thread; a connected
\* instance is stopped first, any other one is dropped without being stopped
C6_StartReplaces ==
    [][(StartedStep /\ kws # None) =>
          /\ nextId' = nextId + 1
          /\ kws' = nextId'
          /\ ticker'[kws'].st = "created"
          /\ threads' = threads + 1
          /\ is_connected(kws) => ticker'[kws].st = "stopped"
          /\ ~is_connected(kws) => ticker'[kws] = ticker[kws]]_vars

C6_Witness ==
    /\ log.op = "start_websocket"
    /\ log.tk # None
    /\ log.connected
    /\ \E i \in TickerIds : ticker[i].st = "stopped"

C8_NoConnectionAfterStop ==
    kws = None => \A i \in TickerIds : ~is_connected(i)

\* C9: get_live_quote(token) is the most recently processed tick of that
\* token, and the cache holds one entry per token, keyed by its own token
C9_LastWriteWins ==
    /\ \A t \in Tokens :
          delivered[t] # 0 =>
              get_live_quote(t) = [instrument_token |-> t, last_price |-> delivered[t]]
    /\ \A k \in DOMAIN live_quotes :
          k \in Tokens /\ live_quotes[k].instrument_token = k

C9_Witness ==
    /\ log.op = "on_ticks"
    /\ log.repeat
    /\ Cardinality(DOMAIN live_quotes) >= 2

\* C10: after clear_live_quotes every token is absent, and a token stays
\* absent until a new tick for it is processed
C10_AbsentAfterClear ==
    /\ log.op = "clear_live_quotes" => DOMAIN live_quotes = {}
    /\ \A t \in Tokens : delivered[t] = 0 => get_live_quote(t) = Absent

C10_Witness ==
    /\ log.op = "clear_live_quotes"
    /\ log.repeat

\* C11: the mapping a caller got from get_all_live_quotes keeps the contents
\* it had when the call returned, whatever on_ticks stores afterwards
C11_SnapshotUnchanged ==
    quotes.ref # "none" => QuotesHeld = quotes.at_call

\* a finished window selection that had strikes and a price to work with
Selected ==
    /\ chain.pc = "done"
    /\ chain.strikes # <<>>
    /\ chain.current_ltp # NoLtp

\* C12: with a price, the window over a non-empty sorted strike list is a
\* contiguous ascending run of at most 2n+1 strikes that contains the ATM
\* strike, and of exactly 2n+1 strikes when the list has at least that many
C12_WindowAroundAtm ==
    Selected =>
        LET ds == chain.display_strikes
            size == 2 * chain.num_otm_strikes + 1
        IN /\ \A i \in 1..(Len(chain.strikes) - 1) : chain.strikes[i] < chain.strikes[i + 1]
           /\ \E a \in DOMAIN chain.strikes :
                  /\ a + Len(ds) - 1 <= Len(chain.strikes)
                  /\ \A i \in DOMAIN ds : ds[i] = chain.strikes[a + i - 1]
           /\ Len(ds) >= 1
           /\ Len(ds) <= size
           /\ \E i \in DOMAIN ds : ds[i] = chain.atm_strike
           /\ Len(chain.strikes) >= size => Len(ds) = size
           /\ chain.num_otm_strikes = 0 => ds = <<chain.atm_strike>>

\* the ATM strike is the lowest strike of a list long enough for the window
C12_Witness ==
    /\ Selected
    /\ chain.num_otm_strikes >= 1
    /\ Len(chain.strikes) > 2 * chain.num_otm_strikes + 1
    /\ chain.atm_strike = chain.strikes[1]
    /\ Len(chain.display_strikes) = 2 * chain.num_otm_strikes + 1

\* C13: with a price and a strike list shorter than 2n+1, the window is the
\* whole list wherever the ATM strike lies in it
C13_AllStrikesWhenShort ==
    (Selected /\ Len(chain.strikes) < 2 * chain.num_otm_strikes + 1) =>
        chain.display_strikes = chain.strikes

\* the multiples of step nearest to ltp, a tie resolved to the even multiple
NearestMultiples(ltp, step) ==
    {r \in {step * k : k \in 0..(ltp \div step + 1)} :
        /\ 2 * abs(ltp - r) <= step
        /\ 2 * abs(ltp - r) = step => (r \div step) % 2 = 0}

\* C14: the ATM strike is round(price / step) * step when that is a known
\* strike and otherwise a known strike at minimum distance from the price;
\* 24853 with step 50 gives 24850 and the window 24750 .. 24950 for n = 2
C14_AtmStrike ==
    Selected =>
        /\ \E r \in NearestMultiples(chain.current_ltp, chain.strike_step) :
               NearestMultiples(chain.current_ltp, chain.strike_step) = {r}
        /\ \A r \in NearestMultiples(chain.current_ltp, chain.strike_step) :
               IF \E i \in DOMAIN chain.strikes : chain.strikes[i] = r
               THEN chain.atm_strike = r
               ELSE /\ \E i \in DOMAIN chain.strikes : chain.strikes[i] = chain.atm_strike
                    /\ \A i \in DOMAIN chain.strikes :
                           abs(chain.atm_strike - chain.current_ltp)
                               <= abs(chain.strikes[i] - chain.current_ltp)
        /\ (chain.current_ltp = 24853 /\ chain.strike_step = 50) =>
               /\ chain.atm_strike = 24850
               /\ chain.display_strikes = <<24750, 24800, 24850, 24900, 24950>>

\* the rounded price is no known strike and the nearest one stands in
C14_Witness ==
    /\ Selected
    /\ Len(chain.strikes) >= 2
    /\ \A r \in NearestMultiples(chain.current_ltp, chain.strike_step) :
           /\ \A i \in DOMAIN chain.strikes : chain.strikes[i] # r
           /\ 2 * abs(chain.current_ltp - r) = chain.strike_step

\* C15: when every cache poll found nothing and the REST fallback failed or
\* answered with a non-positive price, the selection ends with "no reference
\* price", without a window and without a subscribe_to_tokens call
C15_NoReferencePrice ==
    (chain.pc = "done" /\ chain.strikes # <<>> /\ chain.attempt = max_retries
         /\ chain.current_ltp <= 0) =>
        /\ chain.ret = "no reference price"
        /\ chain.display_strikes = <<>>
        /\ log.op # "subscribe_to_tokens"

\* C16: for an expiry without strikes the selection returns "No options
\* found" with an empty window and calls neither subscribe_to_tokens nor the
\* transport
C16_NoOptions ==
    [][(chain.pc = "select" /\ chain.strikes = <<>> /\ chain'.pc = "done") =>
          /\ chain'.ret = "No options found"
          /\ chain'.display_strikes = <<>>
          /\ log'.op = "plot_option_chain"
          /\ ticker' = ticker
          /\ always_subscribed_tokens' = always_subscribed_tokens]_vars

C16_Witness ==
    /\ chain.pc = "done"
    /\ chain.strikes = <<>>
    /\ chain.current_ltp > 0
    /\ KwsConnected
    /\ log.op = "plot_option_chain"

\* C17: a token set passed to subscribe_to_tokens while not connected is
\* applied by the next connect: after on_connect of the current ticker the
\* subscribed set is the permanent set together with the last such set
C17_AppliedOnConnect ==
    (log.op = "on_connect" /\ log.tk = kws /\ requested.made) =>
        ticker[kws].subs = always_subscribed_tokens \cup requested.tokens

\* C18: an instance whose access token the server rejects is never retried:
\* its first failed attempt is final
C18_RejectedNeverRetried ==
    \A i \in TickerIds : credentials[i] = "expired" => ticker[i].st # "retrying"

\* C19: once two callers of subscribe_to_tokens have both returned, the
\* subscribed set is the permanent set together with the tokens of one of
\* the two calls
C19_OneCallWins ==
    (\A c \in Callers : callers[c].pc = "returned") =>
        \E c \in Callers :
            ticker[kws].subs = always_subscribed_tokens \cup callers[c].tokens

\* C20: from the end of stop (stop_websocket then clear_live_quotes) until
\* the next start_websocket the cache is empty, whatever the feed thread
\* still does
C20_EmptyWhileStopped ==
    kws = None => \A t \in Tokens : get_live_quote(t) = Absent

\* the instances whose connection thread is at work
Alive == {i \in TickerIds : ticker[i].st \in {"connecting", "open", "connected", "retrying"}}

\* C21: at any time at most one ticker instance is alive, and it is the one
\* kws names: a replaced instance never connects
C21_SingleLiveInstance ==
    /\ Cardinality(Alive) <= 1
    /\ \A i \in Alive : i = kws

\* C22: subscribe_to_tokens called when there is no ticker, or when the
\* ticker is not connected, issues no subscribe, unsubscribe or set_mode and
\* leaves the permanent set, the ticker handle, the tickers and the cache as
\* they were
C22_NotConnectedNoOp ==
    [][(/\ kws = None \/ ~is_connected(kws)
        /\ log'.op = "subscribe_to_tokens"
        /\ subscribe_to_tokens(log'.arg))
       => /\ log'.unsub = {} /\ log'.sub = {} /\ log'.mode = {}
          /\ UNCHANGED <<kws, always_subscribed_tokens, live_quotes, ticker>>]_vars

\* a request for tokens made while a ticker exists and is not connected
C22_Witness ==
    /\ log.op = "subscribe_to_tokens"
    /\ log.arg # {}
    /\ kws # None
    /\ ~is_connected(kws)
    /\ ticker[kws].subs = {}

\* C23: a transport call that fails during a reconcile never aborts it: no
\* call to subscribe_to_tokens ends by raising to its caller
C23_FailuresContained == \A c \in Callers : callers[c].pc # "raised"

\* C24: the price resolution of plot_option_chain polls the cache at most
\* max_retries times and stops at the first poll that finds a price; the
\* REST fallback is asked at most once, and only after max_retries polls that
\* all found nothing; and every price resolution ends
C24_BoundedPolls ==
    /\ [][/\ chain'.attempt <= max_retries
          /\ poll_live_quote =>
                 /\ chain.attempt < max_retries
                 /\ chain.current_ltp = NoLtp
                 /\ chain'.attempt = chain.attempt + 1
                 /\ get_live_quote(underlying_token) # Absent =>
                        /\ chain'.pc = "select"
                        /\ chain'.current_ltp = get_live_quote(underlying_token).last_price
          /\ (\E p \in RestOutcomes : rest_ltp(p)) =>
                 /\ chain.attempt = max_retries
                 /\ chain.current_ltp = NoLtp
                 /\ chain'.pc = "select"
          /\ chain.pc = "select" => chain'.pc \in {"select", "done"}]_vars
    /\ (chain.pc \in {"poll", "rest"}) ~> (chain.pc = "select")

\* a price found at the second poll, after a first poll that found nothing
C24_Witness ==
    /\ chain.pc = "select"
    /\ chain.attempt = 2
    /\ chain.current_ltp # NoLtp

\* the fallback answered after three polls that found nothing
C24_WitnessRest ==
    /\ chain.pc = "select"
    /\ chain.attempt = max_retries
    /\ get_live_quote(underlying_token) = Absent

\* C25: when plot_option_chain has returned a non-empty window and the feed
\* is connected, the ticker is subscribed to the underlying token and to the
\* CE and the PE token of every strike of the window
C25_WindowSubscribed ==
    (/\ chain.pc = "done"
     /\ chain.display_strikes # <<>>
     /\ kws # None
     /\ is_connected(kws))
    => /\ underlying_token \in ticker[kws].subs
       /\ \A k \in Range(chain.display_strikes) :
              {call_token(k), put_token(k)} \subseteq ticker[kws].subs

\* a window whose options were subscribed by this selection: the call made
\* transport subscribe calls for the CE and PE tokens of its strikes
C25_Witness ==
    /\ chain.pc = "done"
    /\ Len(chain.display_strikes) > 1
    /\ kws # None
    /\ is_connected(kws)
    /\ log.op = "subscribe_to_tokens"
    /\ \A k \in Range(chain.display_strikes) :
           {call_token(k), put_token(k)} \subseteq log.sub

\* the steps of the handlers that only log or only talk to the transport
NotReceiving ==
    \/ \E T \in FrameRequests : subscribe_to_tokens(T)
    \/ \E i \in TickerIds : \/ Handshake(i)
                            \/ on_connect(i)
                            \/ on_reconnect(i)
                            \/ on_noreconnect(i)

\* C26: the cache changes only in on_ticks, which inserts or overwrites the
\* entry of the tick's token and keeps every other entry, and in a clear,
\* which removes them all; subscribe_to_tokens (also when it unsubscribes),
\* on_connect and the connection events leave it as it is, so while the
\* connection is lost for good every read returns the last price delivered
C26_CacheFrame ==
    [][/\ live_quotes' # live_quotes =>
              /\ \/ \E i \in TickerIds, tick \in FrameTicks : on_ticks(i, tick)
                 \/ clear_live_quotes
              /\ ~NotReceiving
       /\ (/\ log'.op = "on_ticks"
           /\ \E i \in TickerIds, tick \in FrameTicks : on_ticks(i, tick)) =>
              /\ DOMAIN live_quotes \subseteq DOMAIN live_quotes'
              /\ \E tick \in FrameTicks :
                     \A t \in DOMAIN live_quotes \ {tick.instrument_token} :
                         live_quotes'[t] = live_quotes[t]
       /\ (log'.op = "clear_live_quotes" /\ clear_live_quotes) => live_quotes' = EmptyDict
       /\ (kws # None /\ ticker[kws].st = "lost") =>
              \A t \in Tokens :
                  delivered[t] # 0 => get_live_quote(t).last_price = delivered[t]]_vars

\* a reconcile that unsubscribed a token whose entry is still in the cache
C26_Witness ==
    /\ log.op = "subscribe_to_tokens"
    /\ MaxToken \in log.unsub
    /\ MaxToken \in DOMAIN live_quotes

\* the connection is lost for good and the cache still holds a price
C26_WitnessLost ==
    /\ kws # None
    /\ ticker[kws].st = "lost"
    /\ DOMAIN live_quotes # {}

\* C27: the permanent set never loses a token except in a stop_websocket
\* that finds a ticker, which empties it; a start_websocket with credentials
\* leaves the union of the set and its initial_tokens, and subscribe_to_tokens
\* leaves the set as it is
C27_PermanentGrows ==
    [][/\ \/ always_subscribed_tokens \subseteq always_subscribed_tokens'
          \/ stop_websocket /\ kws # None
       /\ (log'.op = "stop_websocket" /\ stop_websocket) =>
              always_subscribed_tokens' = IF kws # None THEN {} ELSE always_subscribed_tokens
       /\ \A T \in SUBSET Tokens :
              (/\ log'.op = "start_websocket"
               /\ start_websocket("key", "token", T))
              => always_subscribed_tokens' = always_subscribed_tokens \cup T
       /\ (/\ log'.op = "subscribe_to_tokens"
           /\ subscribe_to_tokens(log'.arg)) => UNCHANGED always_subscribed_tokens]_vars

\* two starts with different tokens, no stop since: the set holds both
C27_Witness ==
    /\ log.op = "start_websocket"
    /\ kws = 2
    /\ always_subscribed_tokens = Tokens
    /\ ticker[1].st # "stopped"

\* C28: start_websocket called with an empty API key or an empty access
\* token creates no ticker, starts no thread, adds nothing to the permanent
\* set and leaves the existing ticker as it is
C28_NoCredentialsNoStart ==
    [][\A k \in ApiKeys, a \in AccessTokens :
          (/\ k = "" \/ a = ""
           /\ log'.op = "start_websocket"
           /\ \E T \in SUBSET Tokens : start_websocket(k, a, T))
          => UNCHANGED <<kws, ticker, threads, nextId, always_subscribed_tokens>>]_vars

\* a start without credentials made while a ticker is connected
C28_Witness ==
    /\ log.op = "start_websocket"
    /\ log.tk = None
    /\ kws # None
    /\ ticker[kws].st = "connected"
    /\ always_subscribed_tokens # Tokens

\* C29: whenever no start_websocket call is in progress, a missing ticker
\* means an empty permanent set, also after a start_websocket call and a
\* stop_websocket call that ran at the same time
C29_NoTickerNoPermanent ==
    (starting.pc \in {"idle", "returned"} /\ kws = None) => always_subscribed_tokens = {}

\* the same for calls that run one after the other
C29_Sequential == kws = None => always_subscribed_tokens = {}

\* the strikes of the list at the least distance from the price
Closest(strikes, ltp) ==
    {k \in Range(strikes) : \A m \in Range(strikes) : abs(k - ltp) <= abs(m - ltp)}

\* C30: the ATM strike is always one of the known strikes, and when the
\* rounded price is no known strike and two known strikes are equally close
\* to the price, it is the lower of the two
C30_LowerOnTie ==
    Selected =>
        /\ \E i \in DOMAIN chain.strikes : chain.strikes[i] = chain.atm_strike
        /\ index(chain.strikes, chain.atm_strike) \in 0..(Len(chain.strikes) - 1)
        /\ \A r \in NearestMultiples(chain.current_ltp, chain.strike_step) :
               r \notin Range(chain.strikes) =>
                   /\ chain.atm_strike \in Closest(chain.strikes, chain.current_ltp)
                   /\ \A k \in Closest(chain.strikes, chain.current_ltp) :
                          chain.atm_strike <= k

\* the price lies halfway between two known strikes and is no strike itself
C30_Witness ==
    /\ Selected
    /\ Cardinality(Closest(chain.strikes, chain.current_ltp)) = 2
    /\ \A r \in NearestMultiples(chain.current_ltp, chain.strike_step) :
           r \notin Range(chain.strikes)
    /\ \E k \in Closest(chain.strikes, chain.current_ltp) : chain.atm_strike < k
====
